---- MODULE Spec2Model ----
(***************************************************************************)
(* MultiSiteConnectionManager (ghost/core/core/server/data/db/             *)
(* multi-site-connection.js): the per-site knex connection registry, the   *)
(* per-site libSQL client registry, cross-site queries through ATTACH      *)
(* DATABASE on the primary site's libSQL client, and destroy().            *)
(*                                                                         *)
(* Scheduling is that of one JavaScript event loop: code between two       *)
(* awaits runs as one atomic step; an async method is suspended at every   *)
(* await and any other ready code may run in between.                      *)
(***************************************************************************)
EXTENDS Integers, Sequences, FiniteSets, TLC

\* ------------------------------------------------------------------ bounds

\* A string is a sequence of characters; a run of word characters that no code
\* splits is written as one element.
\* Site ids used by the callers (test-ghost-multisite.js uses creator1, creator2).
Sites == {<<"creator1">>, <<"creator2">>}

\* executeCrossSiteQuery calls that may be in flight at once.
NumCalls == 2

\* Driver sessions (knex instances and libSQL clients) opened in one run.
MaxHandles == 2

\* Longest additionalSiteIds array passed to executeCrossSiteQuery.
MaxSecs == 2

Calls == 1..NumCalls

\* additionalSiteIds: any array of site ids, duplicates and the primary included
\* (the code checks neither).
SecLists == UNION {[1..n -> Sites] : n \in 0..MaxSecs}

\* Characters of the site ids a caller may pass besides the two above: a word
\* character and the path separator. Nothing in the code restricts a site id but
\* the emptiness checks of lines 257 and 283.
Sep == "/"

IdChars == {"a", Sep}

\* Longest site id of IdChars.
MaxIdLen == 3

SiteIds == UNION {[1..n -> IdChars] : n \in 0..MaxIdLen}

\* Callers of setCurrentSite / getCurrentSite that may be in flight at once.
NumRequests == 3

\* Ghost processes start-multisite.sh starts in one run of the container.
MaxGhostStarts == 3

Requests == 1..NumRequests

\* ------------------------------------------------------------------ site configuration

\* The file name extensions path.extname finds in the configured file names.
ExtNames == {".db"}

\* path.extname(p)
extname(p) == IF p # <<>> /\ p[Len(p)] \in ExtNames THEN <<p[Len(p)]>> ELSE <<>>

\* The position of the last separator of p; the configured file names have one.
LastSep(p) == CHOOSE i \in 1..Len(p) : p[i] = Sep /\ \A j \in (i + 1)..Len(p) : p[j] # Sep

\* path.dirname(p)
dirname(p) == IF LastSep(p) = 1 THEN <<Sep>> ELSE SubSeq(p, 1, LastSep(p) - 1)

\* path.basename(p, ext)
basename(p, ext) ==
    LET b == SubSeq(p, LastSep(p) + 1, Len(p))
        n == Len(b) - Len(ext)
    IN  IF ext # <<>> /\ n > 0 /\ SubSeq(b, n + 1, Len(b)) = ext THEN SubSeq(b, 1, n) ELSE b

\* path.normalize(p) on paths without "." and ".." segments: runs of separators
\* become one separator.
RECURSIVE normalize(_)
normalize(p) ==
    IF Len(p) < 2 THEN p
    ELSE IF p[1] = Sep /\ p[2] = Sep THEN normalize(Tail(p))
    ELSE <<p[1]>> \o normalize(Tail(p))

\* path.join(dir, name): the two joined by a separator, normalized.
join(dir, name) == normalize(dir \o <<Sep>> \o name)

\* A database configuration: client, connection.filename, connection.database
\* (<<>>: not set), useNullAsDefault and pool.afterCreate ("unset": no such key).
\* The configurations config.get('database') holds: the file names of
\* test-ghost-multisite.js and of the platform configuration, for each client.
Clients == {"sqlite3", "better-sqlite3", "libsql", "mysql"}

BaseFilenames ==
    {<<"content", Sep, "data", Sep, "ghost-dev", ".db">>,
     <<Sep, "var", Sep, "lib", Sep, "ghost", Sep, "content", Sep, "data", Sep,
       "ghost-platform", ".db">>}

BaseDbConfigs ==
    [client : Clients, filename : BaseFilenames, database : {<<>>},
     useNullAsDefault : {"true"}, pool : {"unset"}]

\* config.get('database') of test-ghost-multisite.js.
MockDbConfig ==
    [client |-> "better-sqlite3",
     filename |-> <<"content", Sep, "data", Sep, "ghost-dev", ".db">>,
     database |-> <<>>, useNullAsDefault |-> "true", pool |-> "unset"]

\* Lines 198-246: what configureSiteDatabase makes of the configuration object it
\* works on.
SiteDbConfig(siteId, cfg) ==
    LET client == cfg.client
        originalFilename == cfg.filename
        ext == extname(originalFilename)
        baseName == basename(originalFilename, ext)
        dirName == dirname(originalFilename)
    IN  IF client = "sqlite3" \/ client = "better-sqlite3"
        THEN [cfg EXCEPT
                 !.filename = join(dirName, baseName \o <<"-">> \o siteId \o ext),
                 !.useNullAsDefault = IF @ = "unset" THEN "true" ELSE @,
                 !.pool = IF client = "better-sqlite3" THEN "pragma" ELSE "run"]
        ELSE IF client = "libsql"
        THEN [cfg EXCEPT
                 !.database = <<"ghost_site_">> \o siteId,
                 !.filename = <<"content", Sep, "data", Sep, "ghost-">> \o siteId
                                  \o <<".db">>]
        ELSE cfg

\* Mutant of configureSiteDatabase: line 197 takes baseDbConfig itself instead of
\* a deep clone, so the caller's object is the one modified and returned.
configureSiteDatabaseNoClone(siteId, baseDbConfig) ==
    [returned |-> SiteDbConfig(siteId, baseDbConfig),
     base |-> SiteDbConfig(siteId, baseDbConfig)]

\* configureSiteDatabase(siteId, baseDbConfig), lines 196-249: the object returned
\* and the caller's baseDbConfig after the call. The work is done on a deep clone.
configureSiteDatabase(siteId, baseDbConfig) ==
    [returned |-> SiteDbConfig(siteId, baseDbConfig), base |-> baseDbConfig]

\* ------------------------------------------------------------------ state

VARIABLES
    connections,    \* this.connections: Map siteId -> knex, in insertion order
    libsqlClients,  \* this.libsqlClients: Map siteId -> libSQL client, in insertion order
    handles,        \* every driver session opened so far, by handle id
    ret,            \* what the last manager call that returned or threw gave its caller
    calls,          \* per slot: one executeCrossSiteQuery call in flight
    destroyer,      \* the destroy() call in flight, if any
    currentSite,    \* this.currentSite
    requests,       \* per request: a caller of setCurrentSite / getCurrentSite
    dbConfig,       \* the object config.get('database') returns
    siteDbConfig,   \* what the last configureSiteDatabase call was given and returned
    env,            \* config.get('env')
    rawConn,        \* the raw driver connection a knex pool is creating or created last
    setup,          \* one run of .github/scripts/setup.js
    container       \* docker/start-multisite.sh and the processes it started

vars == <<connections, libsqlClients, handles, ret, calls, destroyer,
          currentSite, requests, dbConfig, siteDbConfig, env, rawConn, setup,
          container>>

\* The state of the manager's registries and of the calls on them.
manager == <<connections, libsqlClients, handles, ret, calls, destroyer>>

\* The site context and its callers.
context == <<currentSite, requests>>

\* The configuration store and the last derived configuration.
configs == <<dbConfig, siteDbConfig>>

\* What surrounds the manager: the environment and the driver connections of the
\* knex pools.
platform == <<env, rawConn, setup, container>>

\* ------------------------------------------------------------------ driver

\* The schema number of the primary store itself: the unqualified table names of a
\* query (FROM posts) read the store the client was opened on.
MainAlias == 1

\* Mutant of AliasOf: every secondary is attached under the same alias.
AliasOfFixed(index) == 2

\* `site${index + 2}`: the alias of the secondary at 0-based position index; the
\* number k stands for the token "site<k>".
AliasOf(index) == index + 2

\* Query texts, by the schemas they read: FROM posts is MainAlias, FROM site2.posts
\* is 2.
Queries == {{MainAlias}, {MainAlias, AliasOf(0)}}

\* The per-site COUNT(*) ... UNION ALL query over posts, site2.posts and
\* site3.posts: one row per schema.
CountQuery == {MainAlias, AliasOf(0), AliasOf(1)}

\* process.cwd()
Cwd == <<Sep, "ghost", Sep, "core">>

\* path.resolve(p): p if it is absolute, else p under the working directory;
\* normalized.
resolve(p) ==
    IF p # <<>> /\ p[1] = Sep THEN normalize(p) ELSE normalize(Cwd \o <<Sep>> \o p)

\* this.configureSiteDatabase(siteId, config.get('database')).connection.filename,
\* lines 267-268, 293-294 and 319.
SiteFilename(site) == configureSiteDatabase(site, dbConfig).returned.filename

\* knex(siteDbConfig): a knex instance on the site's database file, named as
\* the configuration names it.
NewKnex(site) ==
    [kind |-> "knex", site |-> site, open |-> TRUE, attached |-> {},
     file |-> SiteFilename(site)]

\* createClient({url: file:<site's database file, resolved>}): a libSQL client,
\* nothing attached.
NewLibSQL(site) ==
    [kind |-> "libsql", site |-> site, open |-> TRUE, attached |-> {},
     file |-> resolve(SiteFilename(site))]

\* Closing a session ends it and everything attached to it.
Closed(hrec) == [hrec EXCEPT !.open = FALSE, !.attached = {}]

AliasInUse(hrec, alias) == \E pr \in hrec.attached : pr[1] = alias

\* Mutant of StoreAt: a schema-qualified table name is resolved in the main
\* database, as if the qualifier were dropped.
StoreAtMain(hrec, alias) == hrec.site

\* The store a schema number names on a session.
StoreAt(hrec, alias) ==
    IF alias = MainAlias
    THEN hrec.site
    ELSE (CHOOSE pr \in hrec.attached : pr[1] = alias)[2]

\* client.execute("ATTACH DATABASE '<file of site>' AS site<k>"): fails on a closed
\* client, on an alias already in use on this connection, and when the store cannot
\* be opened (reachable = FALSE); otherwise binds the alias to the store.
AttachError(hrec, alias, reachable) ==
    IF ~hrec.open THEN "ClientClosed"
    ELSE IF AliasInUse(hrec, alias) THEN "AliasInUse"
    ELSE IF ~reachable THEN "StoreUnreachable"
    ELSE "none"

\* Mutant of Attach: line 319 is missing and the file attached is that of
\* config.get('database') itself.
AttachBaseFile(hrec, alias, site, reachable) ==
    IF AttachError(hrec, alias, reachable) = "none"
    THEN [hrec EXCEPT !.attached = @ \cup {<<alias, site, resolve(dbConfig.filename)>>}]
    ELSE hrec

\* Lines 319-321: the file attached is the site's database file, resolved; an
\* attachment is <<alias, site, file>>.
Attach(hrec, alias, site, reachable) ==
    IF AttachError(hrec, alias, reachable) = "none"
    THEN [hrec EXCEPT !.attached = @ \cup {<<alias, site, resolve(SiteFilename(site))>>}]
    ELSE hrec

\* client.execute(query): one row per schema the query reads, taken from the store
\* bound to that schema; fails on a closed client and on a schema not attached.
ExecQuery(hrec, q) ==
    IF ~hrec.open
    THEN [err |-> "ClientClosed", rows |-> {}]
    ELSE IF \E a \in q : a # MainAlias /\ ~AliasInUse(hrec, a)
    THEN [err |-> "NoSuchTable", rows |-> {}]
    ELSE [err |-> "none", rows |-> {<<a, StoreAt(hrec, a)>> : a \in q}]

\* ------------------------------------------------------------------ maps and results

\* Map.has / Map.get on an insertion-ordered map of [site, h] entries.
Has(map, site) == \E i \in 1..Len(map) : map[i].site = site

Get(map, site) ==
    IF Has(map, site)
    THEN map[CHOOSE i \in 1..Len(map) : map[i].site = site].h
    ELSE 0

\* Mutant of Set: the registry is replaced by a map that holds the new entry only.
SetSingle(map, site, h) == <<[site |-> site, h |-> h]>>

\* Map.set of a key not yet present: appended at the end of the iteration order.
Set(map, site, h) == Append(map, [site |-> site, h |-> h])

\* What a manager call gives its caller: the handle returned (0: none) or the error
\* thrown, and whether the call opened a driver session (fresh). The rows a
\* cross-site query returns are those its call slot holds when it returns.
NoRet == [h |-> 0, err |-> "none", fresh |-> FALSE]

\* throw error (lines 330 and 258, 284): the caller gets the error; "none" stands
\* for a return without error and without a handle.
Thrown(err) == [h |-> 0, err |-> err, fresh |-> FALSE]

\* A call slot: where the call is suspended (pc), the primary's client, the
\* additionalSiteIds argument while the loop of line 318 still reads it (secs), the
\* aliases of the ATTACH statements the call has issued (aliases), the number of
\* them that succeeded (natt), and the outcome of the statement it awaits. The query
\* text is an argument nothing reads before line 325: it is drawn when that line
\* runs.
IdleCall ==
    [pc |-> "idle", client |-> 0, secs |-> <<>>, aliases |-> <<>>,
     natt |-> 0, err |-> "none", rows |-> {}]

IdleDestroy == [pc |-> "idle", pos |-> 0, err |-> "none"]

\* null, the value of this.currentSite before the first setCurrentSite.
NoSite == <<"null">>

\* A caller of the site context: it acts for site, has called setCurrentSite(site)
\* (pc = "set") and then getCurrentSite(), which gave it read (pc = "got").
IdleRequest == [pc |-> "idle", site |-> NoSite, read |-> NoSite]

\* The manager after its constructor ran, lines 184-188, with no call made yet.
InitManager ==
    /\ connections = <<>>
    /\ libsqlClients = <<>>
    /\ handles = <<>>
    /\ ret = NoRet
    /\ calls = [c \in Calls |-> IdleCall]
    /\ destroyer = IdleDestroy
    /\ currentSite = NoSite
    /\ requests = [r \in Requests |-> IdleRequest]

\* No raw driver connection has been created. Of a raw connection: the knex
\* instance whose pool creates it (h), the statements afterCreate issued on it,
\* which of them have been executed (done, by position), how often the creation
\* callback was invoked (cb), and pc: "creating" until the callback hands the
\* connection to the pool, then "created".
NoRawConn == [pc |-> "none", h |-> 0, issued |-> <<>>, done |-> {}, cb |-> 0]

\* A run of setup.js that has not started: its environment variables, the
\* database configuration it will read (lines 50-51), its command line, and what
\* it has done: resetData and setupComplete (lines 54-55), the configuration file
\* it wrote, the outcome of yarn docker:reset, whether knex-migrator init and the
\* build completed, the reset command it spawned, and how it ended ("returned",
\* "exit1": process.exit(1), "rejected": an awaited command failed uncaught).
NoSetup ==
    [pc |-> "start", nodeEnv |-> "development", devcontainer |-> FALSE,
     dbClient |-> <<>>, isUsingDocker |-> FALSE, argv |-> {},
     dbChoice |-> "none", resetData |-> FALSE, setupComplete |-> FALSE,
     written |-> "none", dockerReset |-> "none", migrated |-> FALSE,
     built |-> FALSE, seed |-> "none", exit |-> "none"]

\* start-multisite.sh before its first line: the script's position, the sqld
\* process of each site (running or not), the Ghost processes alive (by the
\* number of their start), $GHOST_PID (0: unset), how many Ghost processes were
\* started, and whether the last check of the sqld processes printed its warning.
DemoSites == {"demo1", "demo2", "demo3"}

NoContainer ==
    [pc |-> "start", sqld |-> [site \in DemoSites |-> FALSE], ghosts |-> {},
     ghostPid |-> 0, started |-> 0, warned |-> FALSE]

InitPlatform ==
    /\ env = <<"development">>
    /\ rawConn = NoRawConn
    /\ setup = NoSetup
    /\ container = NoContainer

\* constructor(), under the configuration of test-ghost-multisite.js.
Init ==
    /\ InitManager
    /\ dbConfig = MockDbConfig
    /\ siteDbConfig = <<>>
    /\ InitPlatform

\* ------------------------------------------------------------------ registries

\* Mutant of ConnAfterGet: the lookup of lines 263-265 is missing, every call opens
\* a session and stores it.
ConnAfterGetNoCache(conns, hs, site) ==
    [map |-> Set(conns, site, Len(hs) + 1),
     hs |-> Append(hs, NewKnex(site)),
     h |-> Len(hs) + 1, fresh |-> TRUE, err |-> "none"]

\* undefined, the value of an argument left out.
Undefined == <<"undefined">>

\* The values of a siteId argument for which !siteId holds: the empty string,
\* null and undefined.
MissingIds == {<<>>, NoSite, Undefined}

\* Mutant of Falsy: the checks of lines 257 and 283 are missing.
FalsyNever(site) == FALSE

\* !siteId
Falsy(site) == site \in MissingIds

\* getSiteConnection(siteId), lines 257-274: the registry and the sessions after the
\* call, and the handle it returns or the error it throws.
ConnAfterGet(conns, hs, site) ==
    IF Falsy(site)
    THEN [map |-> conns, hs |-> hs, h |-> 0, fresh |-> FALSE,
          err |-> "IncorrectUsageError"]
    ELSE IF Has(conns, site)
    THEN [map |-> conns, hs |-> hs, h |-> Get(conns, site), fresh |-> FALSE,
          err |-> "none"]
    ELSE [map |-> Set(conns, site, Len(hs) + 1),
          hs |-> Append(hs, NewKnex(site)),
          h |-> Len(hs) + 1, fresh |-> TRUE, err |-> "none"]

\* getLibSQLClient(siteId), lines 283-303.
ClientAfterGet(clients, hs, site) ==
    IF Falsy(site)
    THEN [map |-> clients, hs |-> hs, h |-> 0, fresh |-> FALSE,
          err |-> "IncorrectUsageError"]
    ELSE IF Has(clients, site)
    THEN [map |-> clients, hs |-> hs, h |-> Get(clients, site), fresh |-> FALSE,
          err |-> "none"]
    ELSE [map |-> Set(clients, site, Len(hs) + 1),
          hs |-> Append(hs, NewLibSQL(site)),
          h |-> Len(hs) + 1, fresh |-> TRUE, err |-> "none"]

\* A call that opens a session is taken only while the run's session budget lasts.
CanGet(map, site) == Falsy(site) \/ Has(map, site) \/ Len(handles) < MaxHandles

\* Mutant of getSiteConnection: line 263 looks the site up in this.libsqlClients,
\* the map of the twin method, instead of this.connections.
getSiteConnectionWrongMap(site) ==
    /\ Len(handles) < MaxHandles \/ Has(libsqlClients, site)
    /\ LET a == IF Has(libsqlClients, site)
                THEN ConnAfterGet(connections, handles, site)
                ELSE ConnAfterGetNoCache(connections, handles, site)
       IN
        /\ connections' = a.map
        /\ handles' = a.hs
        /\ ret' = [h |-> a.h, err |-> a.err, fresh |-> a.fresh]
    /\ UNCHANGED <<libsqlClients, calls, destroyer, context, configs, platform>>

getSiteConnection(site) ==
    /\ CanGet(connections, site)
    /\ LET a == ConnAfterGet(connections, handles, site) IN
        /\ connections' = a.map
        /\ handles' = a.hs
        /\ ret' = [h |-> a.h, err |-> a.err, fresh |-> a.fresh]
    /\ UNCHANGED <<libsqlClients, calls, destroyer, context, configs, platform>>

\* Mutant of getLibSQLClient: once a current site is set, the client is that of
\* this.currentSite, not of the siteId argument.
getLibSQLClientOfCurrentSite(site) ==
    LET used == IF currentSite = NoSite THEN site ELSE currentSite IN
    /\ CanGet(libsqlClients, used)
    /\ LET a == ClientAfterGet(libsqlClients, handles, used) IN
        /\ libsqlClients' = a.map
        /\ handles' = a.hs
        /\ ret' = [h |-> a.h, err |-> a.err, fresh |-> a.fresh]
    /\ UNCHANGED <<connections, calls, destroyer, context, configs, platform>>

getLibSQLClient(site) ==
    /\ CanGet(libsqlClients, site)
    /\ LET a == ClientAfterGet(libsqlClients, handles, site) IN
        /\ libsqlClients' = a.map
        /\ handles' = a.hs
        /\ ret' = [h |-> a.h, err |-> a.err, fresh |-> a.fresh]
    /\ UNCHANGED <<connections, calls, destroyer, context, configs, platform>>

\* Mutant of createSite: the duplicate check of lines 356-360 is missing.
createSiteUnchecked(site) ==
    /\ CanGet(connections, site)
    /\ LET a == ConnAfterGet(connections, handles, site) IN
        /\ connections' = a.map
        /\ handles' = a.hs
        /\ ret' = [h |-> a.h, err |-> a.err, fresh |-> a.fresh]
    /\ UNCHANGED <<libsqlClients, calls, destroyer, context, configs, platform>>

\* createSite(siteId), lines 355-370: no await, so the async body runs in one step.
createSite(site) ==
    IF Has(connections, site)
    THEN /\ ret' = [h |-> 0, err |-> "ValidationError", fresh |-> FALSE]
         /\ UNCHANGED <<connections, libsqlClients, handles, calls, destroyer,
                        context, configs, platform>>
    ELSE /\ CanGet(connections, site)
         /\ LET a == ConnAfterGet(connections, handles, site) IN
             /\ connections' = a.map
             /\ handles' = a.hs
             /\ ret' = [h |-> a.h, err |-> a.err, fresh |-> a.fresh]
         /\ UNCHANGED <<libsqlClients, calls, destroyer, context, configs, platform>>

\* ------------------------------------------------------------------ cross-site query

\* Mutant of IssueAttach: line 321 has no await, so a failed ATTACH rejects a
\* promise nobody awaits and the loop goes on as after a success.
IssueAttachNoAwait(c, h, secs, natt, hs, reachable) ==
    /\ handles' = [hs EXCEPT ![h] = Attach(@, AliasOf(natt), secs[natt + 1], reachable)]
    /\ calls' = [calls EXCEPT ![c] =
                   [pc |-> "attaching", client |-> h, secs |-> secs,
                    aliases |-> Append(calls[c].aliases, AliasOf(natt)),
                    natt |-> natt + 1, err |-> "none", rows |-> {}]]

\* Line 321, up to its await: the ATTACH of the secondary at 0-based position natt
\* (every ATTACH before it succeeded) is executed on the primary's client; the call
\* is then suspended on the result.
IssueAttach(c, h, secs, natt, hs, reachable) ==
    LET alias == AliasOf(natt)
        e == AttachError(hs[h], alias, reachable)
    IN  /\ handles' = [hs EXCEPT ![h] = Attach(@, alias, secs[natt + 1], reachable)]
        /\ calls' = [calls EXCEPT ![c] =
                       [pc |-> "attaching", client |-> h,
                        secs |-> IF e = "none" THEN secs ELSE <<>>,
                        aliases |-> Append(calls[c].aliases, alias),
                        natt |-> IF e = "none" THEN natt + 1 ELSE natt,
                        err |-> e, rows |-> {}]]

\* Mutant of IssueQuery: the query runs on a client newly opened on the primary's
\* store instead of the tracked one.
IssueQueryOnNewClient(c, h, q, natt, hs) ==
    LET r == ExecQuery(NewLibSQL(hs[h].site), q)
    IN  /\ handles' = hs
        /\ calls' = [calls EXCEPT ![c] =
                       [pc |-> "querying", client |-> h, secs |-> <<>>,
                        aliases |-> calls[c].aliases, natt |-> natt,
                        err |-> r.err, rows |-> r.rows]]

\* Line 325, up to its await: the query is executed on the primary's client.
IssueQuery(c, h, q, natt, hs) ==
    LET r == ExecQuery(hs[h], q)
    IN  /\ handles' = hs
        /\ calls' = [calls EXCEPT ![c] =
                       [pc |-> "querying", client |-> h, secs |-> <<>>,
                        aliases |-> calls[c].aliases, natt |-> natt,
                        err |-> r.err, rows |-> r.rows]]

\* Mutant of executeCrossSiteQuery: the method begins with
\* this.setCurrentSite(primarySiteId).
executeCrossSiteQuerySetsSite(c, primary, secs, q) ==
    /\ calls[c].pc = "idle"
    /\ CanGet(libsqlClients, primary)
    /\ currentSite' = primary
    /\ LET a == ClientAfterGet(libsqlClients, handles, primary) IN
        /\ libsqlClients' = a.map
        /\ IF a.err # "none"
           THEN /\ ret' = Thrown(a.err)
                /\ UNCHANGED <<handles, calls>>
           ELSE /\ UNCHANGED ret
                /\ IF secs = <<>>
                   THEN IssueQuery(c, a.h, q, 0, a.hs)
                   ELSE \E reachable \in BOOLEAN :
                            IssueAttach(c, a.h, secs, 0, a.hs, reachable)
    /\ UNCHANGED <<connections, destroyer, requests, configs, platform>>

\* executeCrossSiteQuery(primarySiteId, additionalSiteIds, query), lines 313-321 or
\* 313-325: from the call to its first await. An error of getLibSQLClient (line
\* 314, outside the try) rejects the call at once.
executeCrossSiteQuery(c, primary, secs, q) ==
    /\ calls[c].pc = "idle"
    /\ CanGet(libsqlClients, primary)
    /\ LET a == ClientAfterGet(libsqlClients, handles, primary) IN
        /\ libsqlClients' = a.map
        /\ IF a.err # "none"
           THEN /\ ret' = Thrown(a.err)
                /\ UNCHANGED <<handles, calls>>
           ELSE /\ UNCHANGED ret
                /\ IF secs = <<>>
                   THEN IssueQuery(c, a.h, q, 0, a.hs)
                   ELSE \E reachable \in BOOLEAN :
                            IssueAttach(c, a.h, secs, 0, a.hs, reachable)
    /\ UNCHANGED <<connections, destroyer, context, configs, platform>>

\* Mutant of ResumeAttach: the query of line 325 is inside the loop, so it is
\* issued as soon as the first ATTACH has succeeded.
ResumeAttachQueryEarly(c, q) ==
    /\ calls[c].pc = "attaching"
    /\ LET k == calls[c] IN
        IF k.err # "none"
        THEN /\ calls' = [calls EXCEPT ![c] = IdleCall]
             /\ ret' = Thrown(k.err)
             /\ UNCHANGED handles
        ELSE /\ UNCHANGED ret
             /\ IssueQuery(c, k.client, q, k.natt, handles)
    /\ UNCHANGED <<connections, libsqlClients, destroyer, context, configs, platform>>

\* Lines 318-325 and 328-331: the awaited ATTACH has settled. A failure is logged
\* and rethrown, which ends the call; otherwise the next ATTACH, or the query, is
\* issued. q is the call's query argument, which line 325 is the first to read.
ResumeAttach(c, q) ==
    /\ calls[c].pc = "attaching"
    /\ LET k == calls[c] IN
        IF k.err # "none"
        THEN /\ calls' = [calls EXCEPT ![c] = IdleCall]
             /\ ret' = Thrown(k.err)
             /\ UNCHANGED handles
        ELSE /\ UNCHANGED ret
             /\ IF k.natt < Len(k.secs)
                THEN \E reachable \in BOOLEAN :
                         IssueAttach(c, k.client, k.secs, k.natt, handles, reachable)
                ELSE IssueQuery(c, k.client, q, k.natt, handles)
    /\ UNCHANGED <<connections, libsqlClients, destroyer, context, configs, platform>>

\* Mutant of ResumeQuery: the catch block of lines 328-331 logs the error and
\* returns instead of rethrowing it.
ResumeQuerySwallow(c) ==
    /\ calls[c].pc = "querying"
    /\ calls' = [calls EXCEPT ![c] = IdleCall]
    /\ ret' = NoRet
    /\ UNCHANGED <<connections, libsqlClients, handles, destroyer, context, configs, platform>>

\* Lines 325-331: the awaited query has settled; the call returns result.rows or
\* rethrows the error, which ends it. Nothing is detached.
ResumeQuery(c) ==
    /\ calls[c].pc = "querying"
    /\ calls' = [calls EXCEPT ![c] = IdleCall]
    /\ ret' = Thrown(calls[c].err)
    /\ UNCHANGED <<connections, libsqlClients, handles, destroyer, context, configs, platform>>

\* ------------------------------------------------------------------ destroy

\* Lines 381-387: every libSQL client is closed, then both maps are cleared.
CloseClients(hs, clients) ==
    [h \in 1..Len(hs) |->
        IF \E i \in 1..Len(clients) : clients[i].h = h THEN Closed(hs[h]) ELSE hs[h]]

\* Line 377, up to its await: connection.destroy() of the entry at position pos; it
\* closes the knex instance, or fails (closed = FALSE) and leaves it as it was.
IssueDestroy(pos, closed) ==
    /\ handles' = [handles EXCEPT ![connections[pos].h] =
                     IF closed THEN Closed(@) ELSE @]
    /\ destroyer' = [pc |-> "awaiting", pos |-> pos,
                     err |-> IF closed THEN "none" ELSE "DestroyFailed"]
    /\ UNCHANGED <<connections, libsqlClients>>

FinishDestroy ==
    /\ handles' = CloseClients(handles, libsqlClients)
    /\ connections' = <<>>
    /\ libsqlClients' = <<>>
    /\ destroyer' = IdleDestroy

\* destroy(), lines 375-377 or, with no knex connection tracked, 375-388.
destroy ==
    /\ destroyer.pc = "idle"
    /\ IF connections = <<>>
       THEN FinishDestroy
       ELSE \E closed \in BOOLEAN : IssueDestroy(1, closed)
    /\ UNCHANGED <<ret, calls, context, configs, platform>>

\* Lines 376-388: the awaited connection.destroy() has settled. A rejection ends
\* destroy() there; otherwise the Map iterator moves on, to entries added meanwhile
\* too, and after the last one the clients are closed and the maps cleared.
ResumeDestroy ==
    /\ destroyer.pc = "awaiting"
    /\ IF destroyer.err # "none"
       THEN /\ destroyer' = IdleDestroy
            /\ UNCHANGED <<connections, libsqlClients, handles>>
       ELSE IF destroyer.pos < Len(connections)
       THEN \E closed \in BOOLEAN : IssueDestroy(destroyer.pos + 1, closed)
       ELSE FinishDestroy
    /\ UNCHANGED <<ret, calls, context, configs, platform>>

\* ------------------------------------------------------------------ pool.afterCreate

\* The values of config.get('env').
Envs == {<<"development">>, <<"production">>, <<"testing">>, <<"testing", "-mysql">>}

\* config.get('env').startsWith('testing'), lines 220 and 232.
Testing(e) == e # <<>> /\ e[1] = "testing"

\* Lines 218-225, better-sqlite3: conn.pragma executes each statement before it
\* returns; none of them is given the callback, cb() is called at the end.
AfterCreatePragma(e) ==
    <<[sql |-> "foreign_keys = ON", cb |-> FALSE]>>
        \o (IF Testing(e)
            THEN <<[sql |-> "synchronous = OFF", cb |-> FALSE],
                   [sql |-> "journal_mode = TRUNCATE", cb |-> FALSE]>>
            ELSE <<>>)

\* Mutant of AfterCreateRun: every conn.run is given cb as its callback.
AfterCreateRunCbEach(e) ==
    <<[sql |-> "foreign_keys = ON", cb |-> TRUE]>>
        \o (IF Testing(e)
            THEN <<[sql |-> "synchronous = OFF", cb |-> TRUE],
                   [sql |-> "journal_mode = TRUNCATE", cb |-> TRUE]>>
            ELSE <<>>)

\* Lines 230-236, sqlite3: conn.run queues each statement and returns; the first
\* one carries cb as its completion callback, the others carry none.
AfterCreateRun(e) ==
    <<[sql |-> "foreign_keys = ON", cb |-> TRUE]>>
        \o (IF Testing(e)
            THEN <<[sql |-> "synchronous = OFF", cb |-> FALSE],
                   [sql |-> "journal_mode = TRUNCATE", cb |-> FALSE]>>
            ELSE <<>>)

\* siteDbConfig.pool of the configuration the knex instance h was made from:
\* "pragma" is the afterCreate of lines 218-225, "run" that of lines 230-236.
PoolOf(h) == configureSiteDatabase(handles[h].site, dbConfig).returned.pool

\* The pool of knex instance h has opened a raw driver connection and calls
\* pool.afterCreate(conn, cb). The creation before it has run to its end.
AcquireRawConnection(h) ==
    /\ h \in 1..Len(handles)
    /\ handles[h].kind = "knex"
    /\ handles[h].open
    /\ PoolOf(h) \in {"pragma", "run"}
    /\ rawConn.done = 1..Len(rawConn.issued)
    /\ rawConn' =
          IF PoolOf(h) = "pragma"
          THEN [pc |-> "created", h |-> h, issued |-> AfterCreatePragma(env),
                done |-> 1..Len(AfterCreatePragma(env)), cb |-> 1]
          ELSE [pc |-> "creating", h |-> h, issued |-> AfterCreateRun(env),
                done |-> {}, cb |-> 0]
    /\ UNCHANGED <<manager, context, configs, env, setup, container>>

\* The sqlite3 driver has executed the queued statement at position i (it runs
\* them in no fixed order) and calls its callback, if it has one.
StatementCompleted(i) ==
    /\ i \in (1..Len(rawConn.issued)) \ rawConn.done
    /\ rawConn' = [rawConn EXCEPT
                      !.done = @ \cup {i},
                      !.cb = IF rawConn.issued[i].cb THEN @ + 1 ELSE @,
                      !.pc = IF rawConn.issued[i].cb THEN "created" ELSE @]
    /\ UNCHANGED <<manager, context, configs, env, setup, container>>

\* ------------------------------------------------------------------ setup.js

\* The flags the script looks for in process.argv.
Flags == {"--sqlite", "-y", "-n", "--no-seed", "--xxl"}

\* database:client and database:docker as the configuration holds them when the
\* script starts: nothing configured, what the script itself writes (lines 97-102
\* and 150-159), a MySQL run by the developer (line 194), and a client the
\* script does not know.
SetupConfigs ==
    {[client |-> <<>>, docker |-> FALSE],
     [client |-> <<"sqlite", "3">>, docker |-> FALSE],
     [client |-> <<"mysql">>, docker |-> TRUE],
     [client |-> <<"mysql">>, docker |-> FALSE],
     [client |-> <<"postgres">>, docker |-> FALSE]}

\* dbClient.includes(word)
Includes(str, word) == \E i \in 1..Len(str) : str[i] = word

\* Line 58: !dbClient || !dbClient.includes('mysql') && !dbClient.includes('sqlite')
NoDatabaseConfigured(dbClient) ==
    dbClient = <<>> \/ (~Includes(dbClient, "mysql") /\ ~Includes(dbClient, "sqlite"))

\* The async function returns, or ends some other way.
End(st, how) == [st EXCEPT !.pc = "done", !.exit = how]

\* Lines 34-64 or 34-199: from the start of the script to its first await.
SetupStart ==
    /\ setup.pc = "start"
    /\ setup' =
          IF setup.nodeEnv # "development" \/ setup.devcontainer
          THEN End(setup, "returned")
          ELSE IF NoDatabaseConfigured(setup.dbClient)
          THEN [setup EXCEPT !.pc = "dockerVersion"]
          ELSE IF ~setup.isUsingDocker
          THEN [setup EXCEPT !.pc = "migrate"]
          ELSE IF "-y" \in setup.argv
          THEN [setup EXCEPT !.pc = "dockerResetExisting"]
          ELSE IF "-n" \in setup.argv
          THEN [setup EXCEPT !.pc = "migrate"]
          ELSE [setup EXCEPT !.pc = "confirm"]
    /\ UNCHANGED <<manager, context, configs, env, rawConn, container>>

\* Lines 63-111: docker --version has ended; without Docker, or with --sqlite,
\* the choice is SQLite and the configuration file is written next.
DockerVersion(ok) ==
    /\ setup.pc = "dockerVersion"
    /\ setup' =
          IF ok /\ "--sqlite" \notin setup.argv
          THEN [setup EXCEPT !.pc = "prompt"]
          ELSE [setup EXCEPT !.dbChoice = "sqlite", !.pc = "writeSqlite"]
    /\ UNCHANGED <<manager, context, configs, env, rawConn, container>>

\* Lines 72-127: the prompt has been answered, or has failed ("throws"), which
\* means SQLite.
Prompt(answer) ==
    /\ setup.pc = "prompt"
    /\ setup' =
          IF answer = "mysql"
          THEN [setup EXCEPT !.dbChoice = "mysql", !.pc = "dockerResetSetup"]
          ELSE [setup EXCEPT !.dbChoice = "sqlite", !.pc = "writeSqlite"]
    /\ UNCHANGED <<manager, context, configs, env, rawConn, container>>

\* Lines 110-121: fs.writeFile of config.development.json has ended.
WriteSqliteConfig(ok) ==
    /\ setup.pc = "writeSqlite"
    /\ setup' =
          IF ok
          THEN [setup EXCEPT !.written = "sqlite", !.pc = "mkdir"]
          ELSE End(setup, "exit1")
    /\ UNCHANGED <<manager, context, configs, env, rawConn, container>>

\* Lines 115-121 and 198-199: fs.mkdir of content/data has ended.
MakeDataDir(ok) ==
    /\ setup.pc = "mkdir"
    /\ setup' =
          IF ok
          THEN [setup EXCEPT !.setupComplete = TRUE, !.pc = "migrate"]
          ELSE End(setup, "exit1")
    /\ UNCHANGED <<manager, context, configs, env, rawConn, container>>

\* Lines 126-162: yarn docker:reset of the MySQL setup has ended. On failure the
\* script pushes --sqlite to process.argv and returns.
DockerResetSetup(ok) ==
    /\ setup.pc = "dockerResetSetup"
    /\ setup' =
          IF ok
          THEN [setup EXCEPT !.dockerReset = "ok", !.resetData = TRUE,
                             !.pc = "writeLocal"]
          ELSE End([setup EXCEPT !.dockerReset = "failed",
                                 !.argv = @ \cup {"--sqlite"}], "returned")
    /\ UNCHANGED <<manager, context, configs, env, rawConn, container>>

\* Lines 161-168 and 198-199: fs.writeFile of config.local.json has ended.
WriteLocalConfig(ok) ==
    /\ setup.pc = "writeLocal"
    /\ setup' =
          IF ok
          THEN [setup EXCEPT !.written = "mysql", !.setupComplete = TRUE,
                             !.pc = "migrate"]
          ELSE End(setup, "exit1")
    /\ UNCHANGED <<manager, context, configs, env, rawConn, container>>

\* Lines 179-199: the confirmation prompt has been answered.
Confirm(confirmed) ==
    /\ setup.pc = "confirm"
    /\ setup' = [setup EXCEPT !.pc = IF confirmed THEN "dockerResetExisting"
                                                  ELSE "migrate"]
    /\ UNCHANGED <<manager, context, configs, env, rawConn, container>>

\* Mutant of DockerResetExisting: resetData = true stands before the try block of
\* line 185.
DockerResetExistingSetsFirst(ok) ==
    /\ setup.pc = "dockerResetExisting"
    /\ setup' = [setup EXCEPT !.dockerReset = IF ok THEN "ok" ELSE "failed",
                              !.resetData = TRUE,
                              !.pc = "migrate"]
    /\ UNCHANGED <<manager, context, configs, env, rawConn, container>>

\* Lines 185-199: yarn docker:reset of the configured Docker MySQL has ended; a
\* failure is logged and the script goes on.
DockerResetExisting(ok) ==
    /\ setup.pc = "dockerResetExisting"
    /\ setup' = [setup EXCEPT !.dockerReset = IF ok THEN "ok" ELSE "failed",
                              !.resetData = IF ok THEN TRUE ELSE @,
                              !.pc = "migrate"]
    /\ UNCHANGED <<manager, context, configs, env, rawConn, container>>

\* Lines 199-202: yarn knex-migrator init has ended; its failure is not caught.
KnexMigratorInit(ok) ==
    /\ setup.pc = "migrate"
    /\ setup' =
          IF ok
          THEN [setup EXCEPT !.migrated = TRUE, !.pc = "build"]
          ELSE End(setup, "rejected")
    /\ UNCHANGED <<manager, context, configs, env, rawConn, container>>

\* Lines 202-217: yarn build has ended; then the seed step up to its await.
Build(ok) ==
    /\ setup.pc = "build"
    /\ setup' =
          IF ~ok
          THEN End(setup, "rejected")
          ELSE IF "--no-seed" \in setup.argv \/ ~setup.resetData
          THEN End([setup EXCEPT !.built = TRUE], "returned")
          ELSE [setup EXCEPT !.built = TRUE,
                             !.seed = IF "--xxl" \in setup.argv
                                      THEN "reset:data:xxl" ELSE "reset:data",
                             !.pc = "seed"]
    /\ UNCHANGED <<manager, context, configs, env, rawConn, container>>

\* Lines 213-218: the reset command has ended.
ResetDataEnded(ok) ==
    /\ setup.pc = "seed"
    /\ setup' = End(setup, IF ok THEN "returned" ELSE "rejected")
    /\ UNCHANGED <<manager, context, configs, env, rawConn, container>>

\* ------------------------------------------------------------------ start-multisite.sh

\* The script is in its monitoring loop, lines 145-161.
Monitoring == container.pc \in {"checkGhost", "checkLibsql", "sleep"}

\* kill -0 $GHOST_PID, line 147
GhostRunning == container.ghostPid \in container.ghosts

\* pgrep -f "sqld", line 156: succeeds when any process matches.
AnySqldRunning == \E site \in DemoSites : container.sqld[site]

\* Lines 106-118: the databases are created where missing (under set -e a failing
\* sqlite3 ends the script) and one sqld per site is started in the background.
StartLibsqlServers(ok) ==
    /\ container.pc = "start"
    /\ container' =
          IF ok
          THEN [container EXCEPT !.sqld = [site \in DemoSites |-> TRUE],
                                 !.pc = "startGhost"]
          ELSE [container EXCEPT !.pc = "exited"]
    /\ UNCHANGED <<manager, context, configs, env, rawConn, setup>>

\* Lines 120-127: Ghost is started in the background, GHOST_PID=$!.
StartGhost ==
    /\ container.pc = "startGhost"
    /\ container' = [container EXCEPT !.ghosts = @ \cup {container.started + 1},
                                      !.ghostPid = container.started + 1,
                                      !.started = @ + 1,
                                      !.pc = "wait"]
    /\ UNCHANGED <<manager, context, configs, env, rawConn, setup>>

\* Lines 130-143: wait_for_service returns 0, or 1 after its last attempt, which
\* under set -e ends the script.
WaitForService(ready) ==
    /\ container.pc = "wait"
    /\ container' = [container EXCEPT !.pc = IF ready THEN "checkGhost" ELSE "exited"]
    /\ UNCHANGED <<manager, context, configs, env, rawConn, setup>>

\* Mutant of CheckGhost: the test of line 147 is missing, every cycle starts a
\* Ghost process.
CheckGhostAlwaysStarts ==
    /\ container.pc = "checkGhost"
    /\ container.started < MaxGhostStarts
    /\ container' = [container EXCEPT !.ghosts = @ \cup {container.started + 1},
                                      !.ghostPid = container.started + 1,
                                      !.started = @ + 1,
                                      !.pc = "checkLibsql"]
    /\ UNCHANGED <<manager, context, configs, env, rawConn, setup>>

\* Lines 147-153: if no process has the pid $GHOST_PID, Ghost is started again.
CheckGhost ==
    /\ container.pc = "checkGhost"
    /\ container' =
          IF GhostRunning
          THEN [container EXCEPT !.pc = "checkLibsql"]
          ELSE [container EXCEPT !.ghosts = @ \cup {container.started + 1},
                                 !.ghostPid = container.started + 1,
                                 !.started = @ + 1,
                                 !.pc = "checkLibsql"]
    /\ UNCHANGED <<manager, context, configs, env, rawConn, setup>>

\* Lines 156-158: the warning is printed when pgrep finds no sqld process.
CheckLibsql ==
    /\ container.pc = "checkLibsql"
    /\ container' = [container EXCEPT !.warned = ~AnySqldRunning, !.pc = "sleep"]
    /\ UNCHANGED <<manager, context, configs, env, rawConn, setup>>

\* Line 160: sleep 30 has ended.
Sleep ==
    /\ container.pc = "sleep"
    /\ container' = [container EXCEPT !.pc = "checkGhost"]
    /\ UNCHANGED <<manager, context, configs, env, rawConn, setup>>

\* A Ghost process ends on its own. The run has at most MaxGhostStarts starts, so
\* the last Ghost started does not end.
GhostDies(g) ==
    /\ container.pc # "exited"
    /\ g \in container.ghosts
    /\ container.started < MaxGhostStarts
    /\ container' = [container EXCEPT !.ghosts = @ \ {g}]
    /\ UNCHANGED <<manager, context, configs, env, rawConn, setup>>

\* The sqld process of a site ends on its own.
SqldStops(site) ==
    /\ container.pc # "exited"
    /\ container.sqld[site]
    /\ container' = [container EXCEPT !.sqld[site] = FALSE]
    /\ UNCHANGED <<manager, context, configs, env, rawConn, setup>>

\* Lines 90-104: SIGTERM or SIGINT; cleanup kills every sqld and Ghost process
\* and the script exits.
Cleanup ==
    /\ container.pc \notin {"start", "exited"}
    /\ container' = [container EXCEPT !.sqld = [site \in DemoSites |-> FALSE],
                                      !.ghosts = {},
                                      !.pc = "exited"]
    /\ UNCHANGED <<manager, context, configs, env, rawConn, setup>>

\* ------------------------------------------------------------------ site context

\* A caller that acts for site calls setCurrentSite(siteId), lines 338-340.
setCurrentSite(r, site) ==
    /\ requests[r].pc = "idle"
    /\ currentSite' = site
    /\ requests' = [requests EXCEPT ![r] = [pc |-> "set", site |-> site, read |-> NoSite]]
    /\ UNCHANGED <<manager, configs, platform>>

\* The caller, resumed later, calls getCurrentSite(), lines 346-348.
getCurrentSite(r) ==
    /\ requests[r].pc = "set"
    /\ requests' = [requests EXCEPT ![r].pc = "got", ![r].read = currentSite]
    /\ UNCHANGED <<manager, currentSite, configs, platform>>

\* The caller has used the site it read and ends.
EndRequest(r) ==
    /\ requests[r].pc = "got"
    /\ requests' = [requests EXCEPT ![r] = IdleRequest]
    /\ UNCHANGED <<manager, currentSite, configs, platform>>

\* ------------------------------------------------------------------ configuration calls

\* A call configureSiteDatabase(siteId, config.get('database')), as lines 268, 294
\* and 319 make it: siteDbConfig keeps the result in front of the result of the
\* call before it.
Configure(siteId) ==
    /\ LET r == configureSiteDatabase(siteId, dbConfig) IN
        /\ dbConfig' = r.base
        /\ siteDbConfig' = <<[siteId |-> siteId, config |-> r.returned]>>
                               \o SubSeq(siteDbConfig, 1, IF siteDbConfig = <<>> THEN 0 ELSE 1)
    /\ UNCHANGED <<manager, context, platform>>

\* ------------------------------------------------------------------ specification

Next ==
    \/ \E site \in Sites : getSiteConnection(site)
    \/ \E site \in Sites : getLibSQLClient(site)
    \/ \E site \in Sites : createSite(site)
    \/ \E c \in Calls, primary \in Sites, secs \in SecLists, q \in Queries :
           executeCrossSiteQuery(c, primary, secs, q)
    \/ \E c \in Calls, q \in Queries : ResumeAttach(c, q)
    \/ \E c \in Calls : ResumeQuery(c)
    \/ destroy
    \/ ResumeDestroy

Spec == Init /\ [][Next]_vars

\* The site context alone: callers that set the current site and read it back.
NextContext ==
    \/ \E r \in Requests, site \in Sites : setCurrentSite(r, site)
    \/ \E r \in Requests : getCurrentSite(r)
    \/ \E r \in Requests : EndRequest(r)

SpecContext == Init /\ [][NextContext]_vars

\* configureSiteDatabase on any site id and any configuration, in a manager that
\* creates sites meanwhile.
InitLocator ==
    /\ InitManager
    /\ dbConfig \in BaseDbConfigs
    /\ siteDbConfig = <<>>
    /\ InitPlatform

NextLocator ==
    \/ \E siteId \in SiteIds : Configure(siteId)
    \/ \E site \in Sites : createSite(site)

SpecLocator == InitLocator /\ [][NextLocator]_vars

\* The registries and the cross-site query called with the shortest site ids: the
\* empty string, a word character, a separator.
ShortIds == {siteId \in SiteIds : Len(siteId) < 2}

NextIds ==
    \/ \E siteId \in ShortIds \cup MissingIds : createSite(siteId)
    \/ \E siteId \in ShortIds \cup MissingIds : getSiteConnection(siteId)
    \/ \E siteId \in ShortIds \cup MissingIds : getLibSQLClient(siteId)
    \/ \E c \in Calls, primary \in ShortIds, siteId \in ShortIds, q \in Queries :
           executeCrossSiteQuery(c, primary, <<siteId>>, q)
    \/ \E c \in Calls, q \in Queries : ResumeAttach(c, q)
    \/ \E c \in Calls : ResumeQuery(c)

SpecIds == Init /\ [][NextIds]_vars

\* One caller's cross-site queries over three sites, the count query included, in a
\* manager that opens clients and shuts down meanwhile. No knex connection is
\* opened, so destroy() has nothing to await and runs in one step.
Tenants == Sites \cup {<<"creator3">>}

TenantLists == UNION {[1..n -> Tenants] : n \in 0..MaxSecs}

FederationQueries == Queries \cup {CountQuery}

Caller == CHOOSE c \in Calls : TRUE

NextFederation ==
    \/ \E site \in Tenants : getLibSQLClient(site)
    \/ \E primary \in Tenants, secs \in TenantLists, q \in FederationQueries :
           executeCrossSiteQuery(Caller, primary, secs, q)
    \/ \E q \in FederationQueries : ResumeAttach(Caller, q)
    \/ ResumeQuery(Caller)
    \/ destroy

SpecFederation == Init /\ [][NextFederation]_vars

\* The registries and one caller's cross-site queries in a manager whose shared
\* currentSite field another caller sets and reads meanwhile.
Requester == CHOOSE r \in Requests : TRUE

NextShared ==
    \/ \E site \in Sites : setCurrentSite(Requester, site)
    \/ getCurrentSite(Requester)
    \/ EndRequest(Requester)
    \/ \E site \in Sites : getSiteConnection(site)
    \/ \E site \in Sites : getLibSQLClient(site)
    \/ \E site \in Sites : createSite(site)
    \/ \E primary \in Sites, secs \in SecLists, q \in Queries :
           executeCrossSiteQuery(Caller, primary, secs, q)
    \/ \E q \in Queries : ResumeAttach(Caller, q)
    \/ ResumeQuery(Caller)

SpecShared == Init /\ [][NextShared]_vars

\* Knex connections of the sites under either sqlite driver and any environment,
\* with the raw driver connections their pools create.
InitPool ==
    /\ InitManager
    /\ dbConfig \in {cfg \in BaseDbConfigs :
                        /\ cfg.client \in {"sqlite3", "better-sqlite3"}
                        /\ cfg.filename = MockDbConfig.filename}
    /\ siteDbConfig = <<>>
    /\ env \in Envs
    /\ rawConn = NoRawConn
    /\ setup = NoSetup
    /\ container = NoContainer

NextPool ==
    \/ \E site \in Sites : getSiteConnection(site)
    \/ \E h \in 1..MaxHandles : AcquireRawConnection(h)
    \/ \E i \in 1..3 : StatementCompleted(i)

SpecPool == InitPool /\ [][NextPool]_vars

\* One run of setup.js, for every environment, configuration and command line.
InitSetup ==
    /\ InitManager
    /\ dbConfig = MockDbConfig
    /\ siteDbConfig = <<>>
    /\ env = <<"development">>
    /\ rawConn = NoRawConn
    /\ container = NoContainer
    /\ \E nodeEnv \in {"development", "production"}, devcontainer \in BOOLEAN,
          cfg \in SetupConfigs, argv \in SUBSET Flags :
           setup = [NoSetup EXCEPT !.nodeEnv = nodeEnv, !.devcontainer = devcontainer,
                                   !.dbClient = cfg.client,
                                   !.isUsingDocker = cfg.docker, !.argv = argv]

NextSetup ==
    \/ SetupStart
    \/ \E ok \in BOOLEAN : DockerVersion(ok)
    \/ \E answer \in {"sqlite", "mysql", "throws"} : Prompt(answer)
    \/ \E ok \in BOOLEAN : WriteSqliteConfig(ok)
    \/ \E ok \in BOOLEAN : MakeDataDir(ok)
    \/ \E ok \in BOOLEAN : DockerResetSetup(ok)
    \/ \E ok \in BOOLEAN : WriteLocalConfig(ok)
    \/ \E confirmed \in BOOLEAN : Confirm(confirmed)
    \/ \E ok \in BOOLEAN : DockerResetExisting(ok)
    \/ \E ok \in BOOLEAN : KnexMigratorInit(ok)
    \/ \E ok \in BOOLEAN : Build(ok)
    \/ \E ok \in BOOLEAN : ResetDataEnded(ok)

SpecSetup == InitSetup /\ [][NextSetup]_vars

\* start-multisite.sh and the processes of its container.
NextContainer ==
    \/ \E ok \in BOOLEAN : StartLibsqlServers(ok)
    \/ StartGhost
    \/ \E ready \in BOOLEAN : WaitForService(ready)
    \/ CheckGhost
    \/ CheckLibsql
    \/ Sleep
    \/ \E g \in 1..MaxGhostStarts : GhostDies(g)
    \/ \E site \in DemoSites : SqldStops(site)
    \/ Cleanup

SpecContainer == Init /\ [][NextContainer]_vars

\* The same, with a shell that goes on executing its loop: each command of the
\* loop ends and the next one is run, unless a signal ends the script.
SpecContainerLive ==
    /\ Init
    /\ [][NextContainer]_vars
    /\ WF_vars(CheckGhost)
    /\ WF_vars(CheckLibsql)
    /\ WF_vars(Sleep)

\* ------------------------------------------------------------------ properties

Handles == 1..Len(handles)

\* The primary site of the call in slot c.
PrimaryOf(c) == handles[calls[c].client].site

\* The aliases the call in slot c has attached so far.
AttachedBy(c) == {AliasOf(i) : i \in 0..(calls[c].natt - 1)}

\* C1: in every reachable state each site has at most one open driver session to
\* its store, whatever the kind of the session.
OneLiveHandlePerTenant ==
    \A h1, h2 \in Handles :
        (handles[h1].open /\ handles[h2].open /\ handles[h1].site = handles[h2].site)
            => h1 = h2

\* C2: when an executeCrossSiteQuery call ends (attach failure, query failure or
\* rows returned), none of the aliases it attached is still attached to the
\* primary's client.
NoAttachmentOutlivesCall ==
    [][\A c \in Calls :
          (calls[c].pc # "idle" /\ calls'[c].pc = "idle")
              => \A a \in AttachedBy(c) : ~AliasInUse(handles'[calls[c].client], a)]_vars

\* C3: when an ATTACH of a call fails, the aliases the call attached before it are
\* detached by the time the call fails, so that the next call on that primary finds
\* them free.
AttachFailureRollsBack ==
    [][\A c \in Calls :
          (calls[c].pc = "attaching" /\ calls[c].err # "none" /\ calls'[c].pc = "idle")
              => \A a \in AttachedBy(c) : ~AliasInUse(handles'[calls[c].client], a)]_vars

\* The call in slot c has issued an ATTACH and has not ended.
InAttachWindow(c) ==
    \/ calls[c].pc = "attaching"
    \/ calls[c].pc = "querying" /\ calls[c].natt > 0

\* C4: two executeCrossSiteQuery calls on the same primary site are never both
\* between their first ATTACH and their end.
FederationCallsSerialized ==
    \A c1, c2 \in Calls :
        (c1 # c2 /\ InAttachWindow(c1) /\ InAttachWindow(c2))
            => PrimaryOf(c1) # PrimaryOf(c2)

\* The knex sessions of a site that are open.
OpenKnex(site) ==
    {h \in Handles : handles[h].kind = "knex" /\ handles[h].site = site /\ handles[h].open}

\* C5: however many getSiteConnection (and createSite) calls are made for a site,
\* at most one knex session of the site is open, and a caller that holds an open
\* knex session holds the one the manager tracks for the site.
CallersShareOneSession ==
    /\ \A site \in Sites : Cardinality(OpenKnex(site)) <= 1
    /\ (ret.h # 0 /\ handles[ret.h].kind = "knex" /\ handles[ret.h].open)
           => Get(connections, handles[ret.h].site) = ret.h

\* C5 witness: a later caller was handed the session an earlier call opened, and it
\* is the only knex session ever opened for the site.
CallersShareOneSessionWitness ==
    /\ ret.h # 0
    /\ ~ret.fresh
    /\ handles[ret.h].kind = "knex"
    /\ handles[ret.h].open
    /\ Cardinality({h \in Handles : handles[h].kind = "knex"
                                     /\ handles[h].site = handles[ret.h].site}) = 1

\* C6: a getSiteConnection call for a site that has an entry returns the handle of
\* that entry and opens no session.
RepeatedGetReturnsSameHandle ==
    [][\A site \in Sites :
          (getSiteConnection(site) /\ Has(connections, site))
              => /\ ret'.h = Get(connections, site)
                 /\ ~ret'.fresh
                 /\ handles' = handles
                 /\ connections' = connections]_vars

\* C6 witness: two sites are tracked and the last call returned, without opening
\* anything, the handle tracked for the site that was registered first.
RepeatedGetWitness ==
    /\ Len(connections) = 2
    /\ ret.h = connections[1].h
    /\ ret.err = "none"
    /\ ~ret.fresh

\* C7: when a destroy() that awaited a connection.destroy() ends, nothing is tracked
\* any more and every session that was tracked is closed, except the one whose
\* close failed, if one did.
ShutdownClosesEverything ==
    [][(destroyer.pc = "awaiting" /\ destroyer'.pc = "idle")
          => /\ connections' = <<>>
             /\ libsqlClients' = <<>>
             /\ \A i \in 1..Len(connections) :
                    (destroyer.err = "none" \/ i # destroyer.pos)
                        => ~handles'[connections[i].h].open
             /\ \A i \in 1..Len(libsqlClients) : ~handles'[libsqlClients[i].h].open]_vars

\* C8: getSiteConnection never returns a session that a destroy() has closed.
NoHandleClosedByShutdownReturned ==
    [][\A site \in Sites : getSiteConnection(site) => handles'[ret'.h].open]_vars

\* C9: createSite for a site that has a connection fails with ValidationError and
\* changes nothing else; a createSite that succeeds leaves the site with a
\* connection, so that the next createSite for it fails.
DuplicateCreateSiteFails ==
    [][\A site \in Sites :
          createSite(site)
              => IF Has(connections, site)
                 THEN /\ ret'.err = "ValidationError"
                      /\ ret'.h = 0
                      /\ UNCHANGED <<connections, libsqlClients, handles, calls, destroyer>>
                 ELSE /\ ret'.err = "none"
                      /\ Has(connections', site)]_vars

\* C9 witness: a createSite call has failed with the duplicate error while a
\* connection is tracked.
DuplicateCreateSiteWitness ==
    /\ ret.err = "ValidationError"
    /\ connections # <<>>

RequestReadsOwnSite ==
    \A r \in Requests : requests[r].pc = "got" => requests[r].read = requests[r].site

QueryReadsOwnSecondaries ==
    [][\A c \in Calls :
          (calls[c].pc = "attaching" /\ calls'[c].pc = "querying"
             /\ handles'[calls[c].client].open)
              => \A i \in 1..Len(calls[c].secs) :
                     /\ AliasInUse(handles'[calls[c].client], AliasOf(i - 1))
                     /\ \A pr \in handles'[calls[c].client].attached :
                            pr[1] = AliasOf(i - 1) => pr[2] = calls[c].secs[i]]_vars

\* C13 witness: after a destroy() closed the client an earlier call used, a later
\* call on the same primary has attached a secondary to the new client and its
\* query returned rows read through the alias.
QueryReadsOwnSecondariesWitness ==
    \E c \in Calls :
        /\ calls[c].pc = "querying"
        /\ calls[c].natt > 0
        /\ calls[c].err = "none"
        /\ \E r \in calls[c].rows : r[1] = AliasOf(0)
        /\ \E h \in Handles :
               /\ h < calls[c].client
               /\ handles[h].kind = "libsql"
               /\ ~handles[h].open
               /\ handles[h].site = PrimaryOf(c)

\* C14: destroy() calls connection.destroy() only on a connection that is still
\* open, and when a destroy() returns without error both registries are empty,
\* every session that was tracked is closed, and the libSQL clients it closed were
\* open until then.
EachTrackedHandleClosedOnce ==
    [][/\ (destroyer'.pc = "awaiting" /\ destroyer'.pos # destroyer.pos)
              => handles[connections[destroyer'.pos].h].open
       /\ (destroyer.pc = "awaiting" /\ destroyer.err = "none" /\ destroyer'.pc = "idle")
              => /\ connections' = <<>>
                 /\ libsqlClients' = <<>>
                 /\ \A i \in 1..Len(connections) : ~handles'[connections[i].h].open
                 /\ \A i \in 1..Len(libsqlClients) :
                        /\ handles[libsqlClients[i].h].open
                        /\ ~handles'[libsqlClients[i].h].open]_vars

\* The characters of the allow-listed identifier grammar among those used here.
IdentifierChars == {"a", "creator1", "creator2"}

ValidSiteId(siteId) ==
    /\ siteId # <<>>
    /\ \A i \in 1..Len(siteId) : siteId[i] \in IdentifierChars

\* C15: no session is ever opened on the store of a site id outside the grammar,
\* and no store of such an id is ever attached.
OnlyValidIdsReachStorage ==
    \A h \in Handles :
        /\ ValidSiteId(handles[h].site)
        /\ \A pr \in handles[h].attached : ValidSiteId(pr[2])

\* The clients configureSiteDatabase derives a site-specific store for.
SupportedClients == {"sqlite3", "better-sqlite3", "libsql"}

\* The store a configuration names.
Locator(cfg) == <<cfg.filename, cfg.database>>

\* C16: under a supported client, the configurations derived for two different
\* site ids name different stores.
LocatorInjective ==
    (/\ Len(siteDbConfig) = 2
     /\ siteDbConfig[1].siteId # siteDbConfig[2].siteId
     /\ dbConfig.client \in SupportedClients)
        => Locator(siteDbConfig[1].config) # Locator(siteDbConfig[2].config)

\* C17: no step changes the configuration config.get('database') holds, and a
\* configureSiteDatabase call for the site id of the call before it returns what
\* that call returned.
ConfigurationIsPure ==
    [][/\ dbConfig' = dbConfig
       /\ (/\ siteDbConfig' # siteDbConfig
           /\ Len(siteDbConfig') = 2
           /\ siteDbConfig'[1].siteId = siteDbConfig'[2].siteId)
              => siteDbConfig'[1].config = siteDbConfig'[2].config]_vars

\* C17 witness: the configuration of a site id was derived twice in a row, with a
\* connection tracked by then, and it names another file than the base one.
ConfigurationIsPureWitness ==
    /\ Len(siteDbConfig) = 2
    /\ siteDbConfig[1].siteId = siteDbConfig[2].siteId
    /\ siteDbConfig[1].config.filename # dbConfig.filename
    /\ connections # <<>>

HasDuplicate(secs) == \E i, j \in 1..Len(secs) : i # j /\ secs[i] = secs[j]

\* C18: no call whose additionalSiteIds names a site twice gets as far as an
\* ATTACH.
DuplicateSecondariesRejected ==
    \A c \in Calls : calls[c].pc = "attaching" => ~HasDuplicate(calls[c].secs)

\* C19: a store is attached only for a site that is registered, that is, one
\* createSite would refuse as existing.
OnlyRegisteredSitesAttached ==
    [][\A h \in 1..Len(handles') :
          \A pr \in handles'[h].attached :
              (h > Len(handles) \/ pr \notin handles[h].attached)
                  => Has(connections, pr[2])]_vars

\* The sites createSite refuses as existing.
Registered == {site \in Sites : Has(connections, site)}

\* C20: no step of the manager, which has no operation that deletes a site,
\* takes a site out of the registered ones.
RegisteredNeverShrinks == [][Registered \subseteq Registered']_vars

\* C21: when the attaches of a cross-site query all succeeded and the query
\* itself fails, the call ends by throwing the error the query failed with, and
\* no other.
QueryErrorSurfacedUnchanged ==
    [][\A c \in Calls :
          (/\ calls[c].pc = "querying"
           /\ calls[c].err # "none"
           /\ calls'[c].pc = "idle")
          => ret' = Thrown(calls[c].err)]_vars

\* A query that failed on a schema never attached, after one secondary was
\* attached, about to be surfaced.
QueryErrorSurfacedWitness ==
    \E c \in Calls :
        /\ calls[c].pc = "querying"
        /\ calls[c].natt > 0
        /\ calls[c].err = "NoSuchTable"

\* The driver errors whose message names the database file that could not be
\* opened, from which the site can be read; "database site2 is already in use"
\* names an alias, the error of a closed client names nothing.
ErrorsNamingStore == {"StoreUnreachable"}

\* C22: when an ATTACH of a cross-site query fails, the error the call throws
\* identifies the secondary site that could not be attached.
AttachFailureNamesSite ==
    [][\A c \in Calls :
          (/\ calls[c].pc = "attaching"
           /\ calls[c].err # "none"
           /\ calls'[c].pc = "idle")
          => ret'.err \in ErrorsNamingStore]_vars

AttachThenQueryThenDetach ==
    [][\A c \in Calls :
          /\ (calls[c].pc = "attaching" /\ calls'[c].pc = "querying")
                => /\ calls[c].err = "none"
                   /\ calls[c].natt = Len(calls[c].secs)
                   /\ calls'[c].natt = calls[c].natt
          /\ (calls[c].pc \in {"attaching", "querying"}
                 /\ handles'[calls[c].client].open)
                => \A a \in AttachedBy(c) : AliasInUse(handles'[calls[c].client], a)]_vars

\* A call with the longest list of secondaries has issued its query with all of
\* them attached.
AttachThenQueryWitness ==
    \E c \in Calls :
        /\ calls[c].pc = "querying"
        /\ calls[c].err = "none"
        /\ AttachedBy(c) = {AliasOf(i) : i \in 0..(MaxSecs - 1)}
        /\ \A a \in AttachedBy(c) : AliasInUse(handles[calls[c].client], a)

\* The aliases in use on session h.
AliasesOn(h) == {pr[1] : pr \in handles[h].attached}

\* C25: the aliases a cross-site query attached are detached last-attached
\* first: what is attached to an open client is at every moment an initial run
\* site2, site3, ... of the aliases of a call still in flight on that client,
\* so nothing stays attached when no call is in flight.
AliasesDetachedInReverseOrder ==
    \A h \in Handles :
        (handles[h].open /\ AliasesOn(h) # {})
            => \E c \in Calls :
                   /\ calls[c].pc # "idle"
                   /\ calls[c].client = h
                   /\ \E n \in 1..calls[c].natt :
                          AliasesOn(h) = {AliasOf(i) : i \in 0..(n - 1)}

\* C26: a session that getSiteConnection or getLibSQLClient returns is open when
\* it is returned, whatever destroy() has done or is doing.
ReturnedHandleIsOpen ==
    [][\A site \in Sites :
          ((getSiteConnection(site) \/ getLibSQLClient(site)) /\ ret'.err = "none")
              => /\ ret'.h \in 1..Len(handles')
                 /\ handles'[ret'.h].open]_vars

\* C27: a site's store is never attached to the open client of another site
\* while a session of its own on that store is open.
StoreAttachedOnlyWhileUnopened ==
    \A h1, h2 \in Handles :
        (h1 # h2 /\ handles[h1].open /\ handles[h2].open)
            => \A pr \in handles[h1].attached : pr[2] # handles[h2].site

\* C28: what getSiteConnection, getLibSQLClient, createSite and
\* executeCrossSiteQuery return, register and execute is fixed by their site id
\* arguments, the two registries and the sessions, whatever the value of
\* currentSite; and a change of currentSite changes none of these.
ResultsIndependentOfCurrentSite ==
    [][/\ \A site \in Sites :
              getSiteConnection(site)
                  => LET a == ConnAfterGet(connections, handles, site) IN
                         /\ connections' = a.map
                         /\ handles' = a.hs
                         /\ ret' = [h |-> a.h, err |-> a.err, fresh |-> a.fresh]
       /\ \A site \in Sites :
              getLibSQLClient(site)
                  => LET a == ClientAfterGet(libsqlClients, handles, site) IN
                         /\ libsqlClients' = a.map
                         /\ handles' = a.hs
                         /\ ret' = [h |-> a.h, err |-> a.err, fresh |-> a.fresh]
       /\ \A site \in Sites :
              createSite(site)
                  => IF Has(connections, site)
                     THEN ret'.err = "ValidationError" /\ handles' = handles
                     ELSE LET a == ConnAfterGet(connections, handles, site) IN
                              /\ connections' = a.map
                              /\ handles' = a.hs
                              /\ ret'.h = a.h
       /\ \A c \in Calls :
              (calls[c].pc = "idle" /\ calls'[c].pc # "idle")
                  => \A primary \in Sites, secs \in SecLists, q \in Queries :
                         executeCrossSiteQuery(c, primary, secs, q)
                             => LET a == ClientAfterGet(libsqlClients, handles, primary)
                                IN  /\ libsqlClients' = a.map
                                    /\ calls'[c].client = a.h
                                    /\ IF secs = <<>>
                                       THEN /\ handles' = a.hs
                                            /\ calls'[c].rows = ExecQuery(a.hs[a.h], q).rows
                                            /\ calls'[c].err = ExecQuery(a.hs[a.h], q).err
                                       ELSE /\ calls'[c].aliases = <<AliasOf(0)>>
                                            /\ \E reachable \in BOOLEAN :
                                                   handles' = [a.hs EXCEPT ![a.h] =
                                                       Attach(@, AliasOf(0), secs[1],
                                                              reachable)]
       /\ currentSite' # currentSite => UNCHANGED manager]_vars

\* While the current site is creator2, the session last returned is one of
\* creator1 and a query on the client of creator1 has returned its rows.
ResultsIndependentWitness ==
    /\ currentSite = <<"creator2">>
    /\ ret.h # 0
    /\ handles[ret.h].site = <<"creator1">>
    /\ \E c \in Calls :
           /\ calls[c].pc = "querying"
           /\ calls[c].err = "none"
           /\ PrimaryOf(c) = <<"creator1">>

\* C29: getSiteConnection, getLibSQLClient and createSite called for site a leave
\* every other site as it was: the session each registry holds for it is the
\* same before and after (none added, none replaced), and no session on its
\* store is closed or otherwise changed.
OtherSitesUntouched ==
    [][\A a \in Sites :
          (getSiteConnection(a) \/ getLibSQLClient(a) \/ createSite(a))
              => /\ \A b \in Sites \ {a} :
                        /\ Get(connections', b) = Get(connections, b)
                        /\ Get(libsqlClients', b) = Get(libsqlClients, b)
                 /\ \A h \in Handles :
                        handles[h].site # a => handles'[h] = handles[h]]_vars

\* A session was opened for one site while the connection registry held an open
\* session of another site, which it still holds.
OtherSitesUntouchedWitness ==
    \E a \in Sites, b \in Sites :
        /\ a # b
        /\ ret.fresh
        /\ handles[ret.h].site = a
        /\ Has(connections, b)
        /\ Get(connections, b) < ret.h
        /\ handles[Get(connections, b)].open

\* C30: the file a site's knex connection is opened on, the file its libSQL
\* client is opened on and the file attached when the site is a secondary are
\* one and the same file, the one configureSiteDatabase names for the site id
\* (a relative name being taken under the working directory).
OneLocatorPerSite ==
    /\ \A h \in Handles :
           resolve(handles[h].file) =
               resolve(configureSiteDatabase(handles[h].site, dbConfig).returned.filename)
    /\ \A h \in Handles : \A pr \in handles[h].attached :
           /\ pr[3] = resolve(configureSiteDatabase(pr[2], dbConfig).returned.filename)
           /\ \A h2 \in Handles :
                  handles[h2].site = pr[2] => resolve(handles[h2].file) = pr[3]

\* One site has an open knex connection and an open libSQL client and is attached
\* as a secondary, all at once.
OneLocatorPerSiteWitness ==
    \E site \in Sites, h1 \in Handles, h2 \in Handles, h3 \in Handles :
        /\ handles[h1].kind = "knex" /\ handles[h1].open /\ handles[h1].site = site
        /\ handles[h2].kind = "libsql" /\ handles[h2].open /\ handles[h2].site = site
        /\ handles[h3].open
        /\ \E pr \in handles[h3].attached : pr[2] = site

\* C31: no step of executeCrossSiteQuery changes the connections registry or
\* currentSite; the call itself changes the libSQL registry at most by adding a
\* client for its primary site, and the steps after its awaits change neither
\* registry.
CrossSiteQueryFrame ==
    [][\A c \in Calls :
          /\ (calls[c].pc = "idle" /\ calls'[c].pc # "idle")
                => \A primary \in Sites, secs \in SecLists, q \in Queries :
                       executeCrossSiteQuery(c, primary, secs, q)
                           => /\ connections' = connections
                              /\ currentSite' = currentSite
                              /\ \/ libsqlClients' = libsqlClients
                                 \/ /\ ~Has(libsqlClients, primary)
                                    /\ libsqlClients' =
                                           Append(libsqlClients,
                                                  [site |-> primary, h |-> Len(handles) + 1])
                              /\ \A site \in Sites \ {primary} :
                                     Get(libsqlClients', site) = Get(libsqlClients, site)
          /\ (calls[c].pc # "idle" /\ calls'[c] # calls[c])
                => /\ connections' = connections
                   /\ libsqlClients' = libsqlClients
                   /\ currentSite' = currentSite]_vars

\* While a current site is set and a knex connection is registered, a call has
\* attached a secondary that is not its primary; the libSQL registry holds a
\* client for the primary and none for the secondary.
CrossSiteQueryFrameWitness ==
    \E c \in Calls :
        /\ calls[c].pc = "querying"
        /\ currentSite \in Sites
        /\ connections # <<>>
        /\ Has(libsqlClients, PrimaryOf(c))
        /\ \E pr \in handles[calls[c].client].attached :
               pr[2] # PrimaryOf(c) /\ ~Has(libsqlClients, pr[2])

\* C32: getSiteConnection and getLibSQLClient called with a missing site id (the
\* empty string, null, undefined) throw IncorrectUsageError, open no session and
\* leave both registries and currentSite as they were.
MissingSiteIdRejected ==
    [][\A siteId \in MissingIds :
          (getSiteConnection(siteId) \/ getLibSQLClient(siteId))
              => /\ ret' = [h |-> 0, err |-> "IncorrectUsageError", fresh |-> FALSE]
                 /\ handles' = handles
                 /\ connections' = connections
                 /\ libsqlClients' = libsqlClients
                 /\ currentSite' = currentSite]_vars

\* A call was rejected with IncorrectUsageError in a manager that has sessions in
\* both registries.
MissingSiteIdWitness ==
    /\ ret.err = "IncorrectUsageError"
    /\ connections # <<>>
    /\ libsqlClients # <<>>
    /\ Len(handles) = Len(connections) + Len(libsqlClients)

\* The positions of the statements on the raw connection that enable foreign keys.
ForeignKeyStatements ==
    {i \in 1..Len(rawConn.issued) : rawConn.issued[i].sql = "foreign_keys = ON"}

\* C33: on every raw connection a pool creates, under either sqlite driver and
\* in any environment, afterCreate issues the statement that enables foreign keys
\* exactly once, the creation callback is never invoked twice, it has been
\* invoked once when the connection is handed to the pool and when afterCreate's
\* statements have all been executed, and foreign keys are on by then.
SessionSettingsAppliedOnce ==
    rawConn.pc # "none"
        => /\ Cardinality(ForeignKeyStatements) = 1
           /\ rawConn.cb <= 1
           /\ (rawConn.pc = "created") = (rawConn.cb = 1)
           /\ rawConn.cb = 1 => ForeignKeyStatements \subseteq rawConn.done
           /\ rawConn.done = 1..Len(rawConn.issued) => rawConn.cb = 1

\* Under sqlite3 in a testing environment all three statements of afterCreate
\* have been executed and the callback was invoked.
SessionSettingsWitness ==
    /\ dbConfig.client = "sqlite3"
    /\ Testing(env)
    /\ rawConn.pc = "created"
    /\ Len(rawConn.issued) = 3
    /\ rawConn.done = 1..3

\* C34: a run of setup.js in which yarn docker:reset of the MySQL setup failed
\* ends with the SQLite configuration written and knex-migrator init completed.
DockerFailureFallsBackToSqlite ==
    (setup.pc = "done" /\ setup.dbChoice = "mysql" /\ setup.dockerReset = "failed")
        => (setup.written = "sqlite" /\ setup.migrated)

StoppedServerReported ==
    [][(/\ container.pc = "checkLibsql"
        /\ container'.pc = "sleep"
        /\ \E site \in DemoSites : ~container.sqld[site])
       => container'.warned]_vars

\* C37: at most one Ghost process started by the script is alive at any time,
\* and whenever the script is in its monitoring loop and the Ghost process is not
\* running, the script later starts Ghost again (or is stopped by a signal).
GhostRestartedAndSingle ==
    /\ [](Cardinality(container.ghosts) <= 1)
    /\ ((Monitoring /\ ~GhostRunning) ~> (GhostRunning \/ container.pc = "exited"))

\* In the monitoring loop a second Ghost process runs after the first one died.
GhostRestartedWitness ==
    /\ Monitoring
    /\ container.started = 2
    /\ container.ghosts = {2}
    /\ container.ghostPid = 2

====
